---- MODULE Spec2Model ----
(***************************************************************************)
(* Academic merit platform: the coin ledger (TransactionController), the   *)
(* professor's report (getStudentsWithRedemptions) and the student         *)
(* registry (StudentController).                                           *)
(*                                                                         *)
(* The model classes (Transaction, User, Student, Redemption, Advantage,   *)
(* Company) and the mailer are imported by the controllers but are not     *)
(* part of the sources; they are modelled from the data model of the       *)
(* specification as plain row stores.                                      *)
(***************************************************************************)
EXTENDS Integers, Sequences, FiniteSets, TLC

VARIABLES
    users,        \* User rows: [id, email, type]
    ledger,       \* Transaction rows in creation order
    pc,           \* sendCoins: position of each request
    req,          \* sendCoins: fromUserId and req.body of each request
    toUser,       \* sendCoins: id of the resolved recipient (local toUser)
    transaction,  \* sendCoins: id of the created transaction (local transaction)
    mailer,       \* sendCoins: what the sendMail promise of the request does
    resp,         \* sendCoins: the answer written to res
    students,     \* Student rows: [id, user_id, cpf]
    redemptions,  \* Redemption rows in creation order: [id, student_id, advantage_id]
    advantages,   \* Advantage rows: [id, company_id]
    companies,    \* Company rows: [id]
    report,       \* getStudentsWithRedemptions: the answer written to res
    spc,          \* StudentController: position of each request
    sreq,         \* StudentController: operation, req.params.id and req.body
    seen,         \* StudentController: what the lookups of the request returned
    sresp         \* StudentController: the answer written to res

vars == <<users, ledger, pc, req, toUser, transaction, mailer, resp,
          students, redemptions, advantages, companies, report,
          spc, sreq, seen, sresp>>

\* what StudentController keeps for its requests
registryVars == <<spc, sreq, seen, sresp>>

\* what sendCoins neither reads nor writes
others == <<students, redemptions, advantages, companies, report, registryVars>>

\* what getStudentsWithRedemptions does not write
sendCoinsVars == <<pc, req, toUser, transaction, mailer, resp>>

\* ------------------------------------------------------------------ bounds

NumReq == 2        \* sendCoins requests (each handled once)
MaxAmount == 1     \* largest amount a request asks for
InitCredit == 1    \* coins granted to the professor before the first request

\* ------------------------------------------------------------- value sets

NoId == 0          \* undefined id

Procs == 1..NumReq
Amounts == (0 - 1)..MaxAmount
Emails == {"", "stud@", "prof@", "nobody@"}
Reasons == {"", "merit"}
SenderIds == 1..3
MailOutcomes == {"resolves", "rejects", "pending"}

Professor == [id |-> 1, email |-> "prof@", type |-> "professor"]
Pupil == [id |-> 2, email |-> "stud@", type |-> "student"]

NoReq == [from |-> NoId, to_email |-> "", amount |-> 0, reason |-> ""]
NoResp == [status |-> 0, error |-> "", tx |-> NoId]
NoFault == <<"none", NoId>>
NoReport == [status |-> 0, caller |-> NoId, fault |-> NoFault, students |-> << >>]

NumStudentReq == 2    \* StudentController requests (each handled once)
Clerks == 1..NumStudentReq
NoStudentReq == [op |-> "none", id |-> NoId, email |-> "", cpf |-> ""]
NoSeen == [email |-> "pending", cpf |-> "pending", user |-> NoId]
NoStudentResp == [status |-> 0, error |-> ""]

RegistryIdle ==
    /\ spc = [c \in Clerks |-> "idle"]
    /\ sreq = [c \in Clerks |-> NoStudentReq]
    /\ seen = [c \in Clerks |-> NoSeen]
    /\ sresp = [c \in Clerks |-> NoStudentResp]

\* ------------------------------------------------------------ row stores

\* userModel.findById: the row, or the empty set standing for null
UserById(id) == {u \in users : u.id = id}
UserByEmail(e) == {u \in users : u.email = e}

RECURSIVE SumFor(_, _, _)
SumFor(txs, u, i) ==
    IF i > Len(txs) THEN 0
    ELSE (IF txs[i].to_user_id = u THEN txs[i].amount ELSE 0)
         - (IF txs[i].from_user_id = u THEN txs[i].amount ELSE 0)
         + SumFor(txs, u, i + 1)

Balance(txs, u) == SumFor(txs, u, 1)

\* transactionModel.getBalance: credits minus debits over the whole ledger
getBalance(u) == Balance(ledger, u)

\* sender and recipient exchanged in the object handed to create
NewTxSwapped(from, to, amount, reason) ==
    [id |-> Len(ledger) + 1, from_user_id |-> to, to_user_id |-> from,
     amount |-> amount, reason |-> reason, transaction_type |-> "transfer"]

\* the object handed to transactionModel.create, which assigns the next id
NewTx(from, to, amount, reason) ==
    [id |-> Len(ledger) + 1, from_user_id |-> from, to_user_id |-> to,
     amount |-> amount, reason |-> reason, transaction_type |-> "transfer"]

\* ------------------------------------------------------------- sendCoins

Answer(p, status, error, tx) ==
    /\ resp' = [resp EXCEPT ![p] = [status |-> status, error |-> error, tx |-> tx]]
    /\ pc' = [pc EXCEPT ![p] = "done"]

\* !to_email || !amount || !reason
MissingField(r) == r.to_email = "" \/ r.amount = 0 \/ r.reason = ""

\* the amount check left out
NotPositiveSkipped(r) == FALSE

\* amount <= 0
NotPositive(r) == r.amount <= 0

\* the role test negated
NotProfessorNegated(u) == u.type = "professor"

\* sender.type !== 'professor'
NotProfessor(u) == u.type # "professor"

\* toUser.type !== 'student'
NotStudent(u) == u.type # "student"

\* the operands of the balance test exchanged
InsufficientSwapped(balance, amount) == amount < balance

\* senderBalance < amount
Insufficient(balance, amount) == balance < amount

\* The request arrives; the checks before the first await run at once.
Receive(p) ==
    /\ pc[p] = "idle"
    /\ \E f \in SenderIds, e \in Emails, a \in Amounts, r \in Reasons :
        LET body == [from |-> f, to_email |-> e, amount |-> a, reason |-> r] IN
        /\ req' = [req EXCEPT ![p] = body]
        /\ IF MissingField(body)
           THEN Answer(p, 400, "required", NoId)
           ELSE IF NotPositive(body)
           THEN Answer(p, 400, "positive", NoId)
           ELSE /\ pc' = [pc EXCEPT ![p] = "findSender"]
                /\ UNCHANGED resp
    /\ UNCHANGED others
    /\ UNCHANGED <<users, ledger, toUser, transaction, mailer>>

\* await userModel.findById(fromUserId) and the two checks on the sender
FindSender(p) ==
    /\ pc[p] = "findSender"
    /\ LET found == UserById(req[p].from) IN
       IF found = {}
       THEN Answer(p, 404, "sender", NoId)
       ELSE IF \E u \in found : NotProfessor(u)
       THEN Answer(p, 403, "professors", NoId)
       ELSE /\ pc' = [pc EXCEPT ![p] = "findRecipient"]
            /\ UNCHANGED resp
    /\ UNCHANGED others
    /\ UNCHANGED <<users, ledger, req, toUser, transaction, mailer>>

\* await userModel.findByEmail(to_email) and the two checks on the recipient
FindRecipient(p) ==
    /\ pc[p] = "findRecipient"
    /\ LET found == UserByEmail(req[p].to_email) IN
       IF found = {}
       THEN /\ Answer(p, 404, "recipient", NoId)
            /\ UNCHANGED toUser
       ELSE IF \E u \in found : NotStudent(u)
       THEN /\ Answer(p, 400, "students", NoId)
            /\ UNCHANGED toUser
       ELSE /\ pc' = [pc EXCEPT ![p] = "getBalance"]
            /\ toUser' = [toUser EXCEPT ![p] = (CHOOSE u \in found : TRUE).id]
            /\ UNCHANGED resp
    /\ UNCHANGED others
    /\ UNCHANGED <<users, ledger, req, transaction, mailer>>

\* await transactionModel.getBalance(fromUserId) and the balance check
GetBalance(p) ==
    /\ pc[p] = "getBalance"
    /\ IF Insufficient(getBalance(req[p].from), req[p].amount)
       THEN Answer(p, 400, "insufficient", NoId)
       ELSE /\ pc' = [pc EXCEPT ![p] = "create"]
            /\ UNCHANGED resp
    /\ UNCHANGED others
    /\ UNCHANGED <<users, ledger, req, toUser, transaction, mailer>>

\* await transactionModel.create(...), then sendMail is called
Create(p) ==
    /\ pc[p] = "create"
    /\ ledger' = Append(ledger,
                    NewTx(req[p].from, toUser[p], req[p].amount, req[p].reason))
    /\ \E o \in MailOutcomes : mailer' = [mailer EXCEPT ![p] = o]
    /\ transaction' = [transaction EXCEPT ![p] = Len(ledger) + 1]
    /\ pc' = [pc EXCEPT ![p] = "mail"]
    /\ UNCHANGED others
    /\ UNCHANGED <<users, req, toUser, resp>>

\* await sendMail(...) returns or throws (caught and logged); then 201
MailSettle(p) ==
    /\ pc[p] = "mail"
    /\ mailer[p] \in {"resolves", "rejects"}
    /\ Answer(p, 201, "", transaction[p])
    /\ UNCHANGED others
    /\ UNCHANGED <<users, ledger, req, toUser, transaction, mailer>>

\* a store call throws: the outer catch answers 500
StoreError(p) ==
    /\ pc[p] \in {"findSender", "findRecipient", "getBalance", "create"}
    /\ Answer(p, 500, "internal", NoId)
    /\ UNCHANGED others
    /\ UNCHANGED <<users, ledger, req, toUser, transaction, mailer>>

Continue(p) ==
    \/ FindSender(p)
    \/ FindRecipient(p)
    \/ GetBalance(p)
    \/ Create(p)
    \/ MailSettle(p)

Init ==
    /\ users = {Professor, Pupil}
    /\ ledger = << [id |-> 1, from_user_id |-> NoId, to_user_id |-> Professor.id,
                    amount |-> InitCredit, reason |-> "grant",
                    transaction_type |-> "credit"] >>
    /\ pc = [p \in Procs |-> "idle"]
    /\ req = [p \in Procs |-> NoReq]
    /\ toUser = [p \in Procs |-> NoId]
    /\ transaction = [p \in Procs |-> NoId]
    /\ mailer = [p \in Procs |-> "none"]
    /\ resp = [p \in Procs |-> NoResp]
    /\ students = {}
    /\ redemptions = << >>
    /\ advantages = {}
    /\ companies = {}
    /\ report = NoReport
    /\ RegistryIdle

Next ==
    \E p \in Procs :
        \/ Receive(p)
        \/ Continue(p)
        \/ StoreError(p)

Spec == Init /\ [][Next]_vars

\* ---------------------------------------------- getStudentsWithRedemptions

MaxTx == 2            \* ledger rows in a report's store
MaxRedemptions == 2   \* redemption rows in a report's store

\* a store call on this key raises
Throws(fault, store, key) == fault = <<store, key>>

\* studentModel.findByUserId, advantageModel.findById, companyModel.findById:
\* the row, or the empty set standing for null
StudentByUserId(uid) == {s \in students : s.user_id = uid}
AdvantageById(id) == {a \in advantages : a.id = id}
CompanyById(id) == {c \in companies : c.id = id}

\* redemptionModel.findByStudentId: the student's rows in creation order
RedemptionsOf(sid) == SelectSeq(redemptions, LAMBDA r : r.student_id = sid)

\* transactionModel.findByUserId: the rows the user sent or received
findByUserId(uid) ==
    SelectSeq(ledger, LAMBDA tx : tx.from_user_id = uid \/ tx.to_user_id = uid)

\* tx.from_user_id === professorId && tx.transaction_type === 'transfer'
SentBy(tx, professorId) ==
    tx.from_user_id = professorId /\ tx.transaction_type = "transfer"

\* [...new Set(ids)]: the distinct ids in order of first appearance
RECURSIVE Distinct(_)
Distinct(ids) ==
    IF ids = << >> THEN << >>
    ELSE LET front == Distinct(SubSeq(ids, 1, Len(ids) - 1))
             last == ids[Len(ids)]
         IN IF \E i \in 1..Len(front) : front[i] = last
            THEN front ELSE Append(front, last)

\* sentTransactions.map(tx => tx.to_user_id).filter(id => id !== undefined)
RecipientIds(sent) ==
    LET ids == [i \in 1..Len(sent) |-> sent[i].to_user_id]
    IN Distinct(SelectSeq(ids, LAMBDA id : id # NoId))

RECURSIVE SumAmounts(_)
SumAmounts(txs) ==
    IF txs = << >> THEN 0 ELSE txs[1].amount + SumAmounts(Tail(txs))

Thrown == [tag |-> "throws"]
Null == [tag |-> "null"]

\* a redemption whose company is missing is dropped too
CompanySummaryStrict(found) ==
    IF found = {} THEN [keep |-> FALSE, id |-> NoId]
    ELSE [keep |-> TRUE, id |-> (CHOOSE c \in found : TRUE).id]

\* company ? { id, name } : null
CompanySummary(found) ==
    IF found = {} THEN [keep |-> TRUE, id |-> NoId]
    ELSE [keep |-> TRUE, id |-> (CHOOSE c \in found : TRUE).id]

\* the callback of enrichRedemptions for one redemption
EnrichOne(r, fault) ==
    IF Throws(fault, "advantages", r.advantage_id) THEN Thrown
    ELSE LET advantage == AdvantageById(r.advantage_id) IN
    IF advantage = {} THEN Null
    ELSE LET a == CHOOSE x \in advantage : TRUE IN
    IF Throws(fault, "companies", a.company_id) THEN Thrown
    ELSE LET company == CompanySummary(CompanyById(a.company_id)) IN
    IF ~company.keep THEN Null
    ELSE [tag |-> "row", id |-> r.id, advantage |-> a.id, company |-> company.id]

\* enrichRedemptions: Promise.all over the callbacks, then the null filter
EnrichThrows(rs, fault) ==
    \E i \in 1..Len(rs) : EnrichOne(rs[i], fault).tag = "throws"
enrichRedemptions(rs, fault) ==
    SelectSeq([i \in 1..Len(rs) |-> EnrichOne(rs[i], fault)],
              LAMBDA e : e.tag # "null")

\* only a missing user is skipped
SkipUserAnyRole(found) == found = {}

\* !user || user.type !== 'student'
SkipUser(found) == found = {} \/ \E u \in found : u.type # "student"

\* the callback of getStudentsWithRedemptions for one recipient id
ChainOne(userId, sent, fault) ==
    IF Throws(fault, "users", userId) THEN Thrown
    ELSE LET user == UserById(userId) IN
    IF SkipUser(user) THEN Null
    ELSE IF Throws(fault, "students", userId) THEN Thrown
    ELSE LET student == StudentByUserId(userId) IN
    IF student = {} THEN Null
    ELSE LET st == CHOOSE x \in student : TRUE
             studentTransactions == SelectSeq(sent, LAMBDA tx : tx.to_user_id = userId)
         IN
    IF Throws(fault, "redemptions", st.id) THEN Thrown
    ELSE IF EnrichThrows(RedemptionsOf(st.id), fault) THEN Thrown
    ELSE [tag |-> "entry",
          student |-> st.id,
          email |-> (CHOOSE u \in user : TRUE).email,
          transactions |-> [i \in 1..Len(studentTransactions) |->
                                studentTransactions[i].id],
          redemptions |-> enrichRedemptions(RedemptionsOf(st.id), fault),
          totalReceived |-> SumAmounts(studentTransactions)]

\* the whole handler for one request: caller is req.user
Report(caller, fault) ==
    IF caller.type # "professor"
    THEN [status |-> 403, caller |-> caller.id, fault |-> fault, students |-> << >>]
    ELSE IF Throws(fault, "transactions", caller.id)
    THEN [status |-> 500, caller |-> caller.id, fault |-> fault, students |-> << >>]
    ELSE LET sentTransactions ==
                 SelectSeq(findByUserId(caller.id), LAMBDA tx : SentBy(tx, caller.id))
             studentIds == RecipientIds(sentTransactions)
             studentsData == [i \in 1..Len(studentIds) |->
                                 ChainOne(studentIds[i], sentTransactions, fault)]
         IN IF \E i \in 1..Len(studentsData) : studentsData[i].tag = "throws"
            THEN [status |-> 500, caller |-> caller.id, fault |-> fault,
                  students |-> << >>]
            ELSE [status |-> 200, caller |-> caller.id, fault |-> fault,
                  students |-> SelectSeq(studentsData, LAMBDA d : d.tag # "null")]

Callers == {[id |-> 1, type |-> "professor"], [id |-> 2, type |-> "student"]}
Faults ==
    {NoFault, <<"transactions", 1>>, <<"users", 2>>, <<"students", 2>>,
     <<"redemptions", 12>>, <<"advantages", 1>>, <<"companies", 2>>}

getStudentsWithRedemptions ==
    /\ report = NoReport
    /\ \E caller \in Callers, fault \in Faults :
        /\ fault # NoFault => caller.type = "professor"
        /\ report' = Report(caller, fault)
    /\ UNCHANGED <<users, ledger, students, redemptions, advantages, companies>>
    /\ UNCHANGED <<sendCoinsVars, registryVars>>

\* rows the stores of a report may hold
Peer == [id |-> 3, email |-> "peer@", type |-> "student"]
Partner == [id |-> 2, email |-> "stud@", type |-> "company"]
Profile(u) == [id |-> u + 10, user_id |-> u, cpf |-> u]
TxRows ==
    {[from_user_id |-> 1, to_user_id |-> 2, amount |-> 1, transaction_type |-> "transfer"],
     [from_user_id |-> 1, to_user_id |-> 3, amount |-> 2, transaction_type |-> "transfer"],
     [from_user_id |-> NoId, to_user_id |-> 1, amount |-> 3, transaction_type |-> "credit"]}
RedemptionRows == [student_id : {12, 13}, advantage_id : {1, 2}]
SeqsUpTo(S, n) == UNION {[1..k -> S] : k \in 0..n}
Numbered(rows) ==
    [i \in 1..Len(rows) |-> [id |-> i] @@ rows[i]]
WithReason(rows) ==
    [i \in 1..Len(rows) |-> [reason |-> "merit"] @@ rows[i]]

InitReport ==
    /\ \E second \in {{}, {Pupil}, {Partner}}, third \in {{}, {Peer}} :
        users = {Professor} \cup second \cup third
    /\ \E profiled \in SUBSET {2, 3} : students = {Profile(u) : u \in profiled}
    /\ \E txs \in SeqsUpTo(TxRows, MaxTx) : ledger = WithReason(Numbered(txs))
    /\ \E rs \in SeqsUpTo(RedemptionRows, MaxRedemptions) : redemptions = Numbered(rs)
    /\ \E firstOffered \in BOOLEAN :
        advantages = (IF firstOffered THEN {[id |-> 1, company_id |-> 1]} ELSE {})
                        \cup {[id |-> 2, company_id |-> 2]}
    /\ \E secondTrading \in BOOLEAN :
        companies = {[id |-> 1]} \cup (IF secondTrading THEN {[id |-> 2]} ELSE {})
    /\ pc = [p \in Procs |-> "idle"]
    /\ req = [p \in Procs |-> NoReq]
    /\ toUser = [p \in Procs |-> NoId]
    /\ transaction = [p \in Procs |-> NoId]
    /\ mailer = [p \in Procs |-> "none"]
    /\ resp = [p \in Procs |-> NoResp]
    /\ report = NoReport
    /\ RegistryIdle

NextReport == getStudentsWithRedemptions

SpecReport == InitReport /\ [][NextReport]_vars

\* ------------------------------------------------------ StudentController

ValidCpfs == {"111", "222"}
Cpfs == {"", "000"} \cup ValidCpfs
NewEmails == {"ana@", "bia@"}

\* CPF.isValid of cpf-cnpj-validator
CpfIsValid(cpf) == cpf \in ValidCpfs

\* studentModel.findByCpf, studentModel.findById
StudentByCpf(cpf) == {st \in students : st.cpf = cpf}
StudentById(id) == {st \in students : st.id = id}

NextId(rows) == IF rows = {} THEN 1 ELSE 1 + CHOOSE m \in {r.id : r \in rows} :
                                              \A r \in rows : r.id <= m

Reply(c, status, error) ==
    /\ sresp' = [sresp EXCEPT ![c] = [status |-> status, error |-> error]]
    /\ spc' = [spc EXCEPT ![c] = "done"]

\* validateCreateRequest: the required fields, then the CPF's check digits
validateCreateRequest(body) ==
    IF body.email = "" \/ body.cpf = "" THEN "required"
    ELSE IF ~CpfIsValid(body.cpf) THEN "invalid"
    ELSE "ok"

\* create: the request arrives and is validated
CreateReceive(c) ==
    /\ spc[c] = "idle"
    /\ \E e \in NewEmails \cup {""}, cpf \in Cpfs :
        LET body == [op |-> "create", id |-> NoId, email |-> e, cpf |-> cpf] IN
        /\ sreq' = [sreq EXCEPT ![c] = body]
        /\ IF validateCreateRequest(body) # "ok"
           THEN Reply(c, 400, validateCreateRequest(body))
           ELSE /\ spc' = [spc EXCEPT ![c] = "lookup"]
                /\ UNCHANGED sresp
    /\ UNCHANGED <<users, students, seen>>
    /\ UNCHANGED <<ledger, redemptions, advantages, companies, report, sendCoinsVars>>

\* create: once both lookups of Promise.all have returned, the two checks
AfterLookups(c, now) ==
    IF now.email = "pending" \/ now.cpf = "pending"
    THEN UNCHANGED <<spc, sresp>>
    ELSE IF now.email = "row" THEN Reply(c, 400, "email")
    ELSE IF now.cpf = "row" THEN Reply(c, 400, "cpf")
    ELSE /\ spc' = [spc EXCEPT ![c] = "createUser"]
         /\ UNCHANGED sresp

\* create: userModel.findByEmail(email) returns
CreateFindByEmail(c) ==
    /\ spc[c] = "lookup"
    /\ seen[c].email = "pending"
    /\ LET now == [seen[c] EXCEPT !.email =
                      IF UserByEmail(sreq[c].email) = {} THEN "null" ELSE "row"]
       IN /\ seen' = [seen EXCEPT ![c] = now]
          /\ AfterLookups(c, now)
    /\ UNCHANGED <<users, students, sreq>>
    /\ UNCHANGED <<ledger, redemptions, advantages, companies, report, sendCoinsVars>>

\* create: studentModel.findByCpf(cpf) returns
CreateFindByCpf(c) ==
    /\ spc[c] = "lookup"
    /\ seen[c].cpf = "pending"
    /\ LET now == [seen[c] EXCEPT !.cpf =
                      IF StudentByCpf(sreq[c].cpf) = {} THEN "null" ELSE "row"]
       IN /\ seen' = [seen EXCEPT ![c] = now]
          /\ AfterLookups(c, now)
    /\ UNCHANGED <<users, students, sreq>>
    /\ UNCHANGED <<ledger, redemptions, advantages, companies, report, sendCoinsVars>>

\* create: bcrypt.hash, then userModel.create inserts the User row; a store
\* that keeps emails unique raises instead when the email is taken
CreateUser(c) ==
    /\ spc[c] = "createUser"
    /\ \/ /\ users' = users \cup {[id |-> NextId(users), email |-> sreq[c].email,
                                   type |-> "student"]}
          /\ seen' = [seen EXCEPT ![c].user = NextId(users)]
          /\ spc' = [spc EXCEPT ![c] = "createStudent"]
          /\ UNCHANGED sresp
       \/ /\ UserByEmail(sreq[c].email) # {}
          /\ Reply(c, 500, "internal")
          /\ UNCHANGED <<users, seen>>
    /\ UNCHANGED <<students, sreq>>
    /\ UNCHANGED <<ledger, redemptions, advantages, companies, report, sendCoinsVars>>

\* create: studentModel.create inserts the Student row and 201 is answered; a
\* store that keeps CPFs unique raises instead when the CPF is taken
CreateStudent(c) ==
    /\ spc[c] = "createStudent"
    /\ \/ /\ students' = students \cup {[id |-> NextId(students),
                                         user_id |-> seen[c].user, cpf |-> sreq[c].cpf]}
          /\ Reply(c, 201, "")
       \/ /\ StudentByCpf(sreq[c].cpf) # {}
          /\ Reply(c, 500, "internal")
          /\ UNCHANGED students
    /\ UNCHANGED <<users, sreq, seen>>
    /\ UNCHANGED <<ledger, redemptions, advantages, companies, report, sendCoinsVars>>

\* update: the request arrives (a numeric id)
UpdateReceive(c) ==
    /\ spc[c] = "idle"
    /\ \E id \in 1..2, cpf \in Cpfs :
        sreq' = [sreq EXCEPT ![c] = [op |-> "update", id |-> id, email |-> "", cpf |-> cpf]]
    /\ spc' = [spc EXCEPT ![c] = "findStudent"]
    /\ UNCHANGED <<users, students, seen, sresp>>
    /\ UNCHANGED <<ledger, redemptions, advantages, companies, report, sendCoinsVars>>

\* update: studentModel.findById returns; the CPF of the body is validated
UpdateFindById(c) ==
    /\ spc[c] = "findStudent"
    /\ LET existingStudent == StudentById(sreq[c].id) IN
       IF existingStudent = {} THEN Reply(c, 404, "student")
       ELSE IF sreq[c].cpf # "" /\ ~CpfIsValid(sreq[c].cpf) THEN Reply(c, 400, "invalid")
       ELSE IF sreq[c].cpf # "" /\ \E st \in existingStudent : sreq[c].cpf # st.cpf
       THEN /\ spc' = [spc EXCEPT ![c] = "checkCpf"]
            /\ UNCHANGED sresp
       ELSE /\ spc' = [spc EXCEPT ![c] = "write"]
            /\ UNCHANGED sresp
    /\ UNCHANGED <<users, students, sreq, seen>>
    /\ UNCHANGED <<ledger, redemptions, advantages, companies, report, sendCoinsVars>>

\* update: studentModel.findByCpf returns
UpdateFindByCpf(c) ==
    /\ spc[c] = "checkCpf"
    /\ IF StudentByCpf(sreq[c].cpf) # {}
       THEN Reply(c, 400, "cpf")
       ELSE /\ spc' = [spc EXCEPT ![c] = "write"]
            /\ UNCHANGED sresp
    /\ UNCHANGED <<users, students, sreq, seen>>
    /\ UNCHANGED <<ledger, redemptions, advantages, companies, report, sendCoinsVars>>

\* update: studentModel.update writes the fields of the body; a store that
\* keeps CPFs unique raises instead when another row holds the CPF
UpdateWrite(c) ==
    /\ spc[c] = "write"
    /\ \/ /\ students' = {IF st.id = sreq[c].id /\ sreq[c].cpf # ""
                          THEN [st EXCEPT !.cpf = sreq[c].cpf] ELSE st : st \in students}
          /\ IF StudentById(sreq[c].id) = {}
             THEN Reply(c, 400, "update")
             ELSE /\ spc' = [spc EXCEPT ![c] = "refetch"]
                  /\ UNCHANGED sresp
       \/ /\ \E st \in StudentByCpf(sreq[c].cpf) : st.id # sreq[c].id
          /\ Reply(c, 500, "internal")
          /\ UNCHANGED students
    /\ UNCHANGED <<users, sreq, seen>>
    /\ UNCHANGED <<ledger, redemptions, advantages, companies, report, sendCoinsVars>>

\* update: the row is read again and 200 is answered
UpdateRefetch(c) ==
    /\ spc[c] = "refetch"
    /\ Reply(c, 200, "")
    /\ UNCHANGED <<users, students, sreq, seen>>
    /\ UNCHANGED <<ledger, redemptions, advantages, companies, report, sendCoinsVars>>

\* one student is registered already
InitRegistry ==
    /\ users = {[id |-> 1, email |-> "eva@", type |-> "student"]}
    /\ students = {[id |-> 1, user_id |-> 1, cpf |-> "111"]}
    /\ ledger = << >>
    /\ redemptions = << >>
    /\ advantages = {}
    /\ companies = {}
    /\ report = NoReport
    /\ pc = [p \in Procs |-> "idle"]
    /\ req = [p \in Procs |-> NoReq]
    /\ toUser = [p \in Procs |-> NoId]
    /\ transaction = [p \in Procs |-> NoId]
    /\ mailer = [p \in Procs |-> "none"]
    /\ resp = [p \in Procs |-> NoResp]
    /\ RegistryIdle

NextRegistry ==
    \E c \in Clerks :
        \/ CreateReceive(c)
        \/ CreateFindByEmail(c)
        \/ CreateFindByCpf(c)
        \/ CreateUser(c)
        \/ CreateStudent(c)
        \/ UpdateReceive(c)
        \/ UpdateFindById(c)
        \/ UpdateFindByCpf(c)
        \/ UpdateWrite(c)
        \/ UpdateRefetch(c)

SpecRegistry == InitRegistry /\ [][NextRegistry]_vars

\* Every handler continuation runs once its promise settles; nothing makes a
\* request arrive, a store call fail, or a pending sendMail settle.
SpecLive == Spec /\ \A p \in Procs : WF_vars(Continue(p))

\* ---------------------------------------------------- sendCoins: properties

UserIds == {u.id : u \in users}
IsProfessor(id) == \E u \in UserById(id) : u.type = "professor"
IsStudentEmail(e) == \E u \in UserByEmail(e) : u.type = "student"
WellFormed(r) == r.to_email # "" /\ r.amount > 0 /\ r.reason # ""
ByProfessorToStudent(r) == IsProfessor(r.from) /\ IsStudentEmail(r.to_email)
NonProfessorSender(r) == UserById(r.from) # {} /\ ~IsProfessor(r.from)
Kind(r) ==
    CASE r.status = 201 -> "Created"
      [] r.status = 400 /\ r.error = "insufficient" -> "InsufficientFunds"
      [] r.status = 400 -> "ValidationError"
      [] r.status = 403 -> "Forbidden"
      [] r.status = 404 -> "NotFound"
      [] r.status = 500 -> "InternalError"
      [] OTHER -> "none"
Answered(p) == pc[p] = "done"
Succeeded == {p \in Procs : Answered(p) /\ Kind(resp[p]) = "Created"}
Refused == {p \in Procs : Answered(p) /\ Kind(resp[p]) = "InsufficientFunds"}
Transfers(txs) == {i \in 1..Len(txs) : txs[i].transaction_type = "transfer"}
Owners == {p \in Procs : transaction[p] # NoId}

\* every request is a transfer of the same amount A from the professor, whose
\* balance was (NumReq-1)*A, and every request is answered
C1_RaceScenario ==
    \A p \in Procs :
        /\ Answered(p)
        /\ req[p].from = Professor.id
        /\ req[p].to_email = Pupil.email
        /\ req[p].reason # ""
        /\ req[p].amount > 0
        /\ req[p].amount * (NumReq - 1) = InitCredit
        /\ Kind(resp[p]) \in {"Created", "InsufficientFunds"}

\* C1: of NumReq transfers of the same amount A from the professor, whose
\* balance is (NumReq-1)*A, exactly NumReq-1 succeed and exactly one is refused
\* with InsufficientFunds, and the professor's balance is never negative.
C1_NoOverdraftUnderConcurrency ==
    /\ getBalance(Professor.id) >= 0
    /\ C1_RaceScenario =>
        /\ Cardinality(Succeeded) = NumReq - 1
        /\ Cardinality(Refused) = 1

\* the step that creates the transaction of request p
C2_Step ==
    \A p \in Procs :
        (pc[p] = "create" /\ pc'[p] = "mail") =>
            LET t == ledger'[Len(ledger')] IN
            /\ ledger' = Append(ledger, t)
            /\ t.transaction_type = "transfer"
            /\ t.amount = req[p].amount
            /\ t.reason = req[p].reason
            /\ \A u \in UserIds \cup SenderIds :
                Balance(ledger', u) = Balance(ledger, u)
                    + (IF u = toUser[p] THEN req[p].amount ELSE 0)
                    - (IF u = req[p].from THEN req[p].amount ELSE 0)
\* the rows of the requests answered 201
C2_Owned ==
    /\ \A p \in Procs :
        (Answered(p) /\ resp[p].status = 201) =>
            /\ resp[p].tx \in Transfers(ledger)
            /\ ledger[resp[p].tx].id = resp[p].tx
            /\ ledger[resp[p].tx].amount = req[p].amount
            /\ ledger[resp[p].tx].reason = req[p].reason
            /\ ledger[resp[p].tx].from_user_id = req[p].from
            /\ \E u \in UserByEmail(req[p].to_email) :
                    u.type = "student" /\ u.id = ledger[resp[p].tx].to_user_id
    /\ \A p, q \in Succeeded : p # q => resp[p].tx # resp[q].tx
    /\ Cardinality(Transfers(ledger)) = Cardinality(Owners)

\* C2: the step that creates a transfer appends exactly one 'transfer' row with
\* the requested amount and reason, debits the sender and credits the recipient
\* by the amount and leaves every other balance alone; every request answered
\* 201 owns one such row, and no two requests own the same row.
C2_TransferMovesCoins == [][C2_Step]_vars /\ []C2_Owned

C2_Witness ==
    \E p \in Procs : /\ Answered(p) /\ resp[p].status = 201
                     /\ getBalance(req[p].from) = InitCredit - req[p].amount
                     /\ getBalance(toUser[p]) = req[p].amount

C3_Original_Step ==
    \A p \in Procs :
        (/\ pc[p] # "done"
         /\ pc'[p] = "done"
         /\ transaction[p] = NoId
         /\ ByProfessorToStudent(req'[p])
         /\ req'[p].amount > Balance(ledger, req'[p].from))
        => (Kind(resp'[p]) = "InsufficientFunds" /\ ledger' = ledger)

\* C3 as stated: a request by a professor to an existing student that is
\* answered, having created nothing, while amount > balance(sender), is
\* answered InsufficientFunds and its answer leaves the ledger as it was.
C3_Original == [][C3_Original_Step]_vars

C3_Step ==
    \A p \in Procs :
        (/\ pc[p] = "getBalance"
         /\ pc'[p] # "getBalance"
         /\ resp'[p].status # 500
         /\ req[p].amount > Balance(ledger, req[p].from))
        => /\ pc'[p] = "done"
           /\ Kind(resp'[p]) = "InsufficientFunds"
           /\ ledger' = ledger
C3_State ==
    \A p \in Procs :
        /\ pc[p] = "getBalance" =>
              WellFormed(req[p]) /\ ByProfessorToStudent(req[p])
        /\ (Answered(p) /\ Kind(resp[p]) = "InsufficientFunds") =>
              /\ transaction[p] = NoId
              /\ WellFormed(req[p]) /\ ByProfessorToStudent(req[p])

\* C3 amended: when the balance read of a request (which is then well formed,
\* sent by a professor to an existing student) returns less than the amount,
\* the request is answered InsufficientFunds in that step, the ledger is left
\* as it was, and the request never creates a transaction.
C3_InsufficientFunds == [][C3_Step]_vars /\ []C3_State

C3_Witness ==
    \E p \in Procs :
        /\ Answered(p) /\ Kind(resp[p]) = "InsufficientFunds"
        /\ req[p].amount > getBalance(req[p].from)
        /\ transaction[p] = NoId

\* C4 as stated: every answered request whose sender exists and is no
\* professor is answered Forbidden.
C4_Original ==
    \A p \in Procs :
        (Answered(p) /\ NonProfessorSender(req[p])) =>
            Kind(resp[p]) = "Forbidden"

\* C4 amended: every answered well-formed request (email, amount and reason
\* present, amount > 0) whose sender lookup returned a user that is no
\* professor is answered Forbidden, whatever the sender's balance, and has
\* created no transaction; while it is in flight it creates none either.
C4_ForbiddenForNonProfessor ==
    \A p \in Procs :
        (pc[p] # "idle" /\ WellFormed(req[p]) /\ NonProfessorSender(req[p])) =>
            /\ transaction[p] = NoId
            /\ pc[p] \in {"findSender", "done"}
            /\ (Answered(p) /\ resp[p].status # 500) =>
                  Kind(resp[p]) = "Forbidden"

C4_Witness ==
    \E p \in Procs :
        /\ Answered(p) /\ Kind(resp[p]) = "Forbidden"
        /\ NonProfessorSender(req[p])
        /\ getBalance(req[p].from) >= req[p].amount

\* C5: a request with amount <= 0 is answered ValidationError in the step that
\* receives it, whatever its other fields, its sender and the balances; it
\* creates no transaction (every transfer row of the ledger belongs to another
\* request), and no transfer row ever carries an amount <= 0.
C5_NonPositiveAmountRejected ==
    /\ \A p \in Procs :
        (pc[p] # "idle" /\ req[p].amount <= 0) =>
            /\ Answered(p)
            /\ Kind(resp[p]) = "ValidationError"
            /\ p \notin Owners
    /\ \A i \in Transfers(ledger) :
        /\ ledger[i].amount > 0
        /\ \E p \in Owners : transaction[p] = i /\ req[p].amount = ledger[i].amount

C5_Witness ==
    \E p, q \in Procs :
        /\ Answered(p) /\ req[p].amount < 0 /\ req[p].from = Professor.id
        /\ req[p].to_email = Pupil.email /\ req[p].reason # ""
        /\ Kind(resp[p]) = "ValidationError"
        /\ Answered(q) /\ req[q].amount = 0 /\ ~IsProfessor(req[q].from)
        /\ Kind(resp[q]) = "ValidationError"

\* rows are only ever appended
C9_Step ==
    /\ Len(ledger') >= Len(ledger)
    /\ \A i \in 1..Len(ledger) : ledger'[i] = ledger[i]

\* C9: once the transaction of a request is created the request is eventually
\* answered 201 with it, and the row stays in the ledger.
C9_NotificationNeverBlocks ==
    /\ \A p \in Procs :
        (pc[p] = "mail") ~> (Answered(p) /\ resp[p].status = 201)
    /\ [][C9_Step]_vars

\* ------------------------------- getStudentsWithRedemptions: properties

Reported == report.status = 200
Entries == {report.students[i] : i \in 1..Len(report.students)}
\* the recipient ids of the transfers the caller sent
Referenced ==
    {ledger[i].to_user_id :
        i \in {j \in 1..Len(ledger) :
                /\ ledger[j].from_user_id = report.caller
                /\ ledger[j].transaction_type = "transfer"
                /\ ledger[j].to_user_id # NoId}}
HasStudentUser(u) == \E x \in users : x.id = u /\ x.type = "student"
HasProfile(u) == \E st \in students : st.user_id = u
Qualified == {u \in Referenced : HasStudentUser(u) /\ HasProfile(u)}
EntriesOf(u) ==
    {i \in 1..Len(report.students) :
        /\ \E st \in students : st.user_id = u /\ st.id = report.students[i].student
        /\ \E x \in users : x.id = u /\ x.email = report.students[i].email}

\* C6: a returned report has no entry but for referenced recipients whose User
\* (a student) and Student profile both exist, and exactly one entry for each
\* of those.
C6_ReportRecipients ==
    Reported =>
        /\ \A i \in 1..Len(report.students) : \E u \in Qualified : i \in EntriesOf(u)
        /\ \A u \in Qualified : Cardinality(EntriesOf(u)) = 1
        /\ Len(report.students) = Cardinality(Qualified)

C6_Witness ==
    /\ Reported
    /\ Len(report.students) = 1
    /\ \E u \in Referenced : ~HasProfile(u) \/ ~HasStudentUser(u)
    /\ \E u \in Qualified : TRUE

Redeemable(sid) ==
    SelectSeq(redemptions,
              LAMBDA r : r.student_id = sid /\ \E a \in advantages : a.id = r.advantage_id)
CompanyOrNull(advantageId) ==
    LET owner == (CHOOSE a \in advantages : a.id = advantageId).company_id
    IN IF \E c \in companies : c.id = owner THEN owner ELSE NoId

\* C7: in every entry of a returned report the redemption list is the
\* student's redemptions whose Advantage exists, in store order, each with its
\* advantage and with the company's id, or null when the Company is missing.
C7_ReportRedemptions ==
    Reported =>
        \A e \in Entries :
            LET kept == Redeemable(e.student) IN
            /\ Len(e.redemptions) = Len(kept)
            /\ \A j \in 1..Len(kept) :
                /\ e.redemptions[j].id = kept[j].id
                /\ e.redemptions[j].advantage = kept[j].advantage_id
                /\ e.redemptions[j].company = CompanyOrNull(kept[j].advantage_id)

C7_Witness ==
    /\ Reported
    /\ \E e \in Entries :
        /\ Len(e.redemptions) = 1
        /\ e.redemptions[1].company = NoId
        /\ Len(RedemptionsOf(e.student)) = 2

ChainStores == {"users", "students", "redemptions", "advantages", "companies"}
SentByCaller == SelectSeq(ledger, LAMBDA tx : SentBy(tx, report.caller))

\* C8: when a lookup of a recipient's chain raises, the report is still
\* returned: without that recipient, with every other recipient's entry.
C8_FailingRecipientOmitted ==
    (report.status # 0 /\ report.status # 403 /\ report.fault[1] \in ChainStores) =>
        /\ Reported
        /\ \A u \in Referenced :
            IF ChainOne(u, SentByCaller, report.fault).tag = "throws"
            THEN EntriesOf(u) = {}
            ELSE ChainOne(u, SentByCaller, NoFault).tag = "entry" =>
                    ChainOne(u, SentByCaller, NoFault) \in Entries

\* ------------------------------------------------ StudentController: properties

CpfHeldByAnother(c) ==
    \E st \in students :
        /\ st.cpf = sreq[c].cpf
        /\ st.user_id # seen[c].user
        /\ st.id # sreq[c].id

\* C10: no two Student rows hold the same CPF, and a request that was not
\* carried out while another row holds its CPF was rejected as the client's
\* error and wrote nothing.
C10_CpfUnique ==
    /\ \A s1, s2 \in students : s1.id # s2.id => s1.cpf # s2.cpf
    /\ \A c \in Clerks :
        (spc[c] = "done" /\ sresp[c].status \notin {200, 201}
            /\ CpfIsValid(sreq[c].cpf) /\ CpfHeldByAnother(c)) =>
                /\ sresp[c].status \in {400, 404}
                /\ seen[c].user = NoId

====
